---- MODULE Spec2Model ----
(***************************************************************************)
(* NexDrive: route handlers that proxy a per-user virtual file tree        *)
(* (bucket/<userId>/...) onto a Misskey-compatible drive API, and the      *)
(* CloudDrive view that drives them.                                       *)
(*                                                                         *)
(* Strings are sequences of one-character strings, so that startsWith,     *)
(* split('/') and concatenation are computed the way the handlers compute  *)
(* them.  The remote drive is the pair (folders, files); every await on    *)
(* an upstream fetch is one step of a request.                             *)
(***************************************************************************)
EXTENDS Integers, Sequences, FiniteSets, TLC

\* ------------------------------------------------------------------ bounds
\* Largest identifier the remote drive hands out (folders and files share it).
MaxId == 9
\* Number of requests started in one run.
MaxReqs == 1
\* Number of user actions on the CloudDrive view in one run.
MaxViewOps == 3

\* Number of sequential calls of GET /api/initialize in one run.
MaxInitCalls == 2
\* Number of changes of the FileManager search box in one run.
MaxKeys == 3
\* The time that passes in one step of the clock, in ms.
TickMs == 250
\* setTimeout(..., 500) of the FileManager search effect, in ms.
SearchDelay == 500

\* ------------------------------------------------------------------ strings
Bucket == <<"b","u","c","k","e","t">>
Slash == <<"/">>
ImagePrefix == <<"i","m","a","g","e","/">>
ImagePng == ImagePrefix \o <<"p","n","g">>
TextPlain == <<"t","e","x","t","/","p","l","a","i","n">>
Photos == <<"P","h","o","t","o","s">>
Docs == <<"D","o","c","s">>
\* A request field that was not sent (null / undefined in the handler).
Missing == <<"null">>
\* The falsy caller identity (auth() yields no userId).
NoUser == << >>
\* The null folder id (the remote drive's top level).
Null == 0
UserA == <<"a">>
UserAB == <<"a","b">>
Users == {UserA, UserAB}

\* String.prototype.startsWith
StartsWith(s, p) == Len(p) <= Len(s) /\ SubSeq(s, 1, Len(p)) = p

\* path.split('/').filter(Boolean): the non-empty segments, left to right.
RECURSIVE SplitAcc(_, _, _)
SplitAcc(s, cur, acc) ==
  IF s = << >> THEN (IF cur = << >> THEN acc ELSE Append(acc, cur))
  ELSE IF Head(s) = "/"
       THEN SplitAcc(Tail(s), << >>, IF cur = << >> THEN acc ELSE Append(acc, cur))
       ELSE SplitAcc(Tail(s), Append(cur, Head(s)), acc)
Split(path) == SplitAcc(path, << >>, << >>)

\* `bucket/${userId}`
BucketPath(u) == Bucket \o Slash \o u

\* ------------------------------------------------------------------ state
VARIABLES
  folders,     \* remote drive: set of [id, name, parentId]
  files,       \* remote drive: set of [id, name, type, folderId]
  nextId,      \* next identifier the remote drive hands out
  reqs,        \* slot -> request in flight (or idle / done)
  config,      \* process.env holds MISSKEY_BASE_URL and MISSKEY_TOKEN
  nreq,        \* requests started by API clients so far
  lastInit,    \* ghost: per user, the last successful answer of GET /api/initialize
  currentPath, \* CloudDrive view: useState("/")
  currentView, \* CloudDrive view: useState("all")
  viewFiles,   \* CloudDrive view: files
  viewFolders, \* CloudDrive view: folders
  isLoading,   \* CloudDrive view: isLoading
  nview,       \* user actions on the view so far
  lastOp,      \* ghost: the user's last action on the view and where it started
  shown,       \* ghost: the request whose listing the view displays
  renameState, \* CloudDrive view: itemToRename, isItemToRenameFolder, newItemName
  searchBox    \* FileManager page: searchQuery, its pending timers, searches in flight

vars == <<folders, files, nextId, reqs, config, nreq, lastInit, currentPath, currentView,
          viewFiles, viewFolders, isLoading, nview, lastOp, shown, renameState, searchBox>>
remote == <<folders, files, nextId>>
\* The state of the two pages' rename and search controls.
ui == <<renameState, searchBox>>
\* What no step of a handler changes.
fixed == <<config, nreq, lastInit, ui>>
view == <<currentPath, currentView, viewFiles, viewFolders, isLoading, nview, lastOp, shown>>

Slots == {"s1", "s2"}

\* ------------------------------------------------------------------ remote drive
\* The drive API is an external system; it is modelled by what the handlers
\* ask of it (find by name and parent, create, list, delete, update), answering
\* truthfully on the current (folders, files) or failing with a non-success status.

FolderIds == {f.id : f \in folders}
FileIds == {f.id : f \in files}

\* folders/find {name, parentId}: the matching folders, listed by ascending id.
FindFolders(name, parentId) == {f \in folders : f.name = name /\ f.parentId = parentId}

\* folders[0].id of a non-empty find result
FirstId(matches) == CHOOSE i \in {f.id : f \in matches} : \A f \in matches : i <= f.id

\* Mutant: every find result counts as empty.
IsEmptyMut(matches) == TRUE

\* length === 0 of a find result
IsEmpty(matches) == matches = {}

\* folders/create {name, parentId}: the parent must exist (or be the top level).
CanCreateFolder(parentId) == nextId <= MaxId /\ (parentId = Null \/ parentId \in FolderIds)
\* Mutant: the new folder is put at the top level.
NewFolderMut(name, parentId) == [id |-> nextId, name |-> name, parentId |-> Null]
NewFolder(name, parentId) == [id |-> nextId, name |-> name, parentId |-> parentId]

\* The folders at or below folder id `top` (folders/delete is taken to cascade).
RECURSIVE IsUnder(_, _, _)
IsUnder(fs, id, tops) ==
  \/ id \in tops
  \/ /\ id # Null
     /\ \E f \in fs : f.id = id /\ f.parentId < id /\ IsUnder(fs, f.parentId, tops)

\* The root folders of user u: folders named u inside a top-level folder `bucket`.
UserRoots(u) ==
  {f.id : f \in {g \in folders : g.name = u /\
                   \E b \in folders : b.id = g.parentId /\ b.name = Bucket /\ b.parentId = Null}}

\* Folder id lies under bucket/u/ (the user's root included).
FolderInNamespace(u, id) == IsUnder(folders, id, UserRoots(u))
FileInNamespace(u, id) == \E f \in files : f.id = id /\ FolderInNamespace(u, f.folderId)

\* A find or create issued while walking a path stays inside bucket/u, or is one
\* of the two shared prefix segments (bucket at the top level, u inside bucket).
WalkInNamespace(u, name, parentId) ==
  \/ parentId = Null /\ name = Bucket
  \/ name = u /\ \E b \in folders : b.id = parentId /\ b.name = Bucket /\ b.parentId = Null
  \/ FolderInNamespace(u, parentId)

\* ------------------------------------------------------------------ requests
\* A response not yet sent (status 0), and the JSON bodies the handlers send.
NoResp ==
  [status |-> 0, files |-> {}, folders |-> {}, results |-> << >>, folder |-> {},
   rootFolderId |-> Null, bucketFolderId |-> Null]
\* NextResponse.json({ error }, { status })
ErrorResp(status) == [NoResp EXCEPT !.status = status]

IdleReq ==
  [pc |-> "idle", kind |-> "", origin |-> "", user |-> NoUser, path |-> << >>,
   view |-> "all", name |-> << >>, id |-> Null, cookie |-> "none", uploads |-> << >>,
   idx |-> 0, phase |-> 0, parts |-> << >>, cur |-> Null, fid |-> Null, bid |-> Null,
   accFiles |-> {}, results |-> << >>, log |-> << >>, resp |-> NoResp]

NewReq(kind, origin, user) ==
  [IdleReq EXCEPT !.pc = "start", !.kind = kind, !.origin = origin, !.user = user]

\* One upstream call, as the drive sees it; `own` records whether its target lay in
\* the caller's namespace bucket/<userId>/ when the call was made.
Call(op, name, id, own) == [op |-> op, name |-> name, id |-> id, own |-> own, ok |-> TRUE]
Logged(r, c) == [r EXCEPT !.log = Append(@, c)]
\* The last call was answered with a non-success status (!response.ok).
Failed(r) == [r EXCEPT !.log[Len(r.log)].ok = FALSE]

\* return NextResponse.json(..., { status }): the handler is over.
Respond(r, resp) == [r EXCEPT !.pc = "done", !.resp = resp]
\* Mutant: the error response also carries what the handler had collected.
ThrowMut(r) == Respond(r, [ErrorResp(500) EXCEPT !.results = r.results])

\* catch (error) { return NextResponse.json({ error: errorMessage }, { status: 500 }) }
Throw(r) == Respond(r, ErrorResp(500))

\* Mutant: the identity check lets every caller through.
UnauthorizedMut(userId) == FALSE

\* if (!userId)
Unauthorized(userId) == userId = NoUser

\* if (!baseUrl || !token)
ConfigMissing == ~config

\* useState(null), useState(false), useState(""): nothing is selected for rename.
NoRename == [item |-> Null, isFolder |-> FALSE, newName |-> << >>]
\* useState(""): an empty search box, no timer pending, no search in flight.
EmptySearchBox ==
  [query |-> << >>, timers |-> {}, inFlight |-> {}, results |-> << >>, loading |-> FALSE,
   quiet |-> 0, keys |-> 0]

Idle(s) == reqs[s].pc = "idle"
AllIdle == \A s \in Slots : Idle(s)

\* ------------------------------------------------------------------ path resolver
\* The upload loop `for (const file of files)`: respond once no file is left.
UploadLoop(r) ==
  IF r.idx = Len(r.uploads)
  THEN Respond(r, [NoResp EXCEPT !.status = 200, !.results = r.results])
  ELSE [r EXCEPT !.pc = "upload"]

\* Where a handler goes on once getFolderIdFromPath has returned.
AfterResolve(r) ==
  CASE r.kind = "list" /\ r.phase = 1 -> [r EXCEPT !.pc = "listFiles"]
    [] r.kind = "list" /\ r.phase = 2 -> [r EXCEPT !.pc = "listFolders"]
    [] r.kind = "mkdir" -> [r EXCEPT !.pc = "createFolder"]
    [] r.kind \in {"upload", "uploadSession"} -> UploadLoop(r)
    [] OTHER -> Throw(r)

\* Mutant: the root path is resolved as the caller's own root bucket/<userId>.
BeginResolveMut(r, path) ==
  [r EXCEPT !.parts = Split(IF path = Slash \/ path = << >> THEN BucketPath(r.user) ELSE path),
            !.cur = Null, !.pc = "find"]

\* getFolderIdFromPath(path): root or empty path is null at once; else walk the parts.
BeginResolve(r, path) ==
  LET parts == IF path = Slash \/ path = << >> THEN << >> ELSE Split(path)
      r1 == [r EXCEPT !.parts = parts, !.cur = Null]
  IN  IF parts = << >> THEN AfterResolve(r1) ELSE [r1 EXCEPT !.pc = "find"]

\* Mutant: the id reached is dropped and the next segment is looked up where the last was.
DescendMut(r, id) ==
  IF Len(r.parts) = 1 THEN AfterResolve([r EXCEPT !.cur = id, !.parts = << >>])
  ELSE [r EXCEPT !.parts = Tail(@), !.pc = "find"]

\* currentFolderId = <id>; next iteration of `for (const part of parts)`.
Descend(r, id) ==
  LET r1 == [r EXCEPT !.cur = id, !.parts = Tail(@)]
  IN  IF r1.parts = << >> THEN AfterResolve(r1) ELSE [r1 EXCEPT !.pc = "find"]

\* Mutant: the walk never takes the found branch and creates every segment.
FoundMut(matches) == FALSE

\* A find answer that counts as "this segment exists".
Found(matches) == ~IsEmpty(matches)

\* Mutant: a failed call is passed over and the walk goes on below the same parent.
ResolveFailedMut(r) ==
  IF Len(r.parts) = 1 THEN AfterResolve([r EXCEPT !.parts = << >>])
  ELSE [r EXCEPT !.parts = Tail(@), !.pc = "find"]

\* throw new Error(...) inside the loop: the walk is over and the handler's catch answers.
ResolveFailed(r) == Throw(r)

\* fetch folders/find for the next part.
ResolveFind(s) ==
  /\ reqs[s].pc = "find"
  /\ LET r == reqs[s]
         part == Head(r.parts)
         matches == FindFolders(part, r.cur)
         r1 == Logged(r, Call("find", part, r.cur, WalkInNamespace(r.user, part, r.cur)))
     IN  \/ /\ Found(matches)
            /\ reqs' = [reqs EXCEPT ![s] = Descend(r1, FirstId(matches))]
         \/ \* 200 with an empty list, or 404: create the segment
            /\ ~Found(matches)
            /\ reqs' = [reqs EXCEPT ![s] = [r1 EXCEPT !.pc = "create"]]
         \/ \* neither ok nor 404
            reqs' = [reqs EXCEPT ![s] = ResolveFailed(Failed(r1))]
  /\ UNCHANGED <<remote, fixed, view>>

\* fetch folders/create for the part that was not found.
ResolveCreate(s) ==
  /\ reqs[s].pc = "create"
  /\ LET r == reqs[s]
         part == Head(r.parts)
         r1 == Logged(r, Call("create", part, r.cur, WalkInNamespace(r.user, part, r.cur)))
     IN  \/ /\ CanCreateFolder(r.cur)
            /\ folders' = folders \cup {NewFolder(part, r.cur)}
            /\ nextId' = nextId + 1
            /\ reqs' = [reqs EXCEPT ![s] = Descend(r1, nextId)]
            /\ UNCHANGED files
         \/ \* !createResponse.ok
            /\ reqs' = [reqs EXCEPT ![s] = ResolveFailed(Failed(r1))]
            /\ UNCHANGED remote
  /\ UNCHANGED <<fixed, view>>

\* What getFolderIdFromPath returns for `parts` below `parent` on the current drive
\* when every segment is found (an id below Null marks a segment it would have to create).
RECURSIVE ResolvedId(_, _)
ResolvedId(parts, parent) ==
  IF parts = << >> THEN parent
  ELSE LET matches == FindFolders(Head(parts), parent)
       IN  IF Found(matches) THEN ResolvedId(Tail(parts), FirstId(matches)) ELSE Null - 1

\* ------------------------------------------------------------------ GET /api/files
\* searchParams.get('path') || '/'
ListPath(r) == IF r.path = << >> THEN Slash ELSE r.path
\* path === '/' ? `bucket/${userId}` : path
ActualPath(r) == IF ListPath(r) = Slash THEN BucketPath(r.user) ELSE ListPath(r)
\* actualPath.startsWith(`bucket/${userId}`)
ListAllowed(actualPath, userId) == StartsWith(actualPath, BucketPath(userId))

\* GET up to its first upstream call.
ListBegin(r) ==
  IF Unauthorized(r.user) THEN Respond(r, ErrorResp(401))
  ELSE IF ~ListAllowed(ActualPath(r), r.user) THEN Respond(r, ErrorResp(403))
  ELSE IF ConfigMissing THEN Throw(r)
  ELSE BeginResolve([r EXCEPT !.phase = 1], ActualPath(r))

\* The drive's answer to `type: 'image'`: a match on the MIME type, either exact
\* or by prefix (the drive decides); no `type` lists every file of the folder.
TypeMatches(type, strict) ==
  IF strict THEN type = SubSeq(ImagePrefix, 1, 5) ELSE StartsWith(type, SubSeq(ImagePrefix, 1, 5))
DriveFiles(folderId, viewName, strict) ==
  {f \in files : f.folderId = folderId /\ (viewName = "images" => TypeMatches(f.type, strict))}

\* missKeyFiles.map(file => ({ id, name, type, ... }))
FileEntry(f) == [id |-> f.id, name |-> f.name, type |-> f.type]

\* path === '/' ? `/${folder.name}` : `${path}/${folder.name}`
FolderEntryPath(path, name) == IF path = Slash THEN Slash \o name ELSE path \o Slash \o name
FolderEntry(path, f) == [id |-> f.id, name |-> f.name, path |-> FolderEntryPath(path, f.name)]

\* What GET /api/files puts in its `folders` field.
ListedFolders(r, subfolders) == {FolderEntry(ListPath(r), f) : f \in subfolders}

\* getFilesFromMisskey after its getFolderIdFromPath: fetch drive/files.
ListFiles(s) ==
  /\ reqs[s].pc = "listFiles"
  /\ LET r == reqs[s]
         r1 == Logged([r EXCEPT !.fid = r.cur],
                      Call("files", << >>, r.cur, FolderInNamespace(r.user, r.cur)))
     IN  \/ \E strict \in BOOLEAN :
              reqs' = [reqs EXCEPT ![s] =
                BeginResolve([r1 EXCEPT !.phase = 2,
                                        !.accFiles = {FileEntry(f) : f \in DriveFiles(r.cur, r.view, strict)}],
                             ActualPath(r))]
         \/ reqs' = [reqs EXCEPT ![s] = Throw(Failed(r1))]
  /\ UNCHANGED <<remote, fixed, view>>

\* getMissFolders after its getFolderIdFromPath: fetch drive/folders, then respond.
ListFolders(s) ==
  /\ reqs[s].pc = "listFolders"
  /\ LET r == reqs[s]
         r1 == Logged(r, Call("folders", << >>, r.cur, FolderInNamespace(r.user, r.cur)))
     IN  \/ reqs' = [reqs EXCEPT ![s] =
              Respond(r1, [NoResp EXCEPT !.status = 200, !.files = r.accFiles,
                             !.folders = ListedFolders(r, {f \in folders : f.parentId = r.cur})])]
         \/ reqs' = [reqs EXCEPT ![s] = Throw(Failed(r1))]
  /\ UNCHANGED <<remote, fixed, view>>

\* ------------------------------------------------------------------ POST /api/folders
\* path.startsWith(`bucket/${userId}/`)
OwnPath(path, userId) == StartsWith(path, BucketPath(userId) \o Slash)

\* POST up to its first upstream call (a missing path makes startsWith throw).
MkdirBegin(r) ==
  IF Unauthorized(r.user) THEN Respond(r, ErrorResp(401))
  ELSE IF r.path = Missing THEN Throw(r)
  ELSE IF ~OwnPath(r.path, r.user) THEN Respond(r, ErrorResp(403))
  ELSE IF ConfigMissing THEN Throw(r)
  ELSE BeginResolve(r, r.path)

\* path: `${path}${folder.name}/`
CreatedFolderPath(path, name) == path \o name \o Slash

\* fetch folders/create {name, parentId: parentFolderId}, then respond.
CreateFolder(s) ==
  /\ reqs[s].pc = "createFolder"
  /\ LET r == reqs[s]
         r1 == Logged(r, Call("create", r.name, r.cur, FolderInNamespace(r.user, r.cur)))
     IN  \/ /\ CanCreateFolder(r.cur)
            /\ folders' = folders \cup {NewFolder(r.name, r.cur)}
            /\ nextId' = nextId + 1
            /\ reqs' = [reqs EXCEPT ![s] =
                 Respond(r1, [NoResp EXCEPT !.status = 200,
                   !.folder = {[id |-> nextId, name |-> r.name,
                                path |-> CreatedFolderPath(r.path, r.name)]}])]
            /\ UNCHANGED files
         \/ /\ reqs' = [reqs EXCEPT ![s] = Throw(Failed(r1))]
            /\ UNCHANGED remote
  /\ UNCHANGED <<fixed, view>>

\* ------------------------------------------------------------------ by-id handlers
\* !newName.trim(): nothing but blanks
IsBlank(str) == \A i \in 1..Len(str) : str[i] = " "

\* DELETE /api/files?fileId=
FileDeleteBegin(r) ==
  IF Unauthorized(r.user) THEN Respond(r, ErrorResp(401))
  ELSE IF r.id = Null THEN Respond(r, ErrorResp(400))
  ELSE IF ConfigMissing THEN Throw(r)
  ELSE [r EXCEPT !.pc = "delFile"]

\* PATCH /api/files {fileId, newName}
FileRenameBegin(r) ==
  IF Unauthorized(r.user) THEN Respond(r, ErrorResp(401))
  ELSE IF r.id = Null \/ r.name = Missing \/ r.name = << >> THEN Respond(r, ErrorResp(400))
  ELSE IF ConfigMissing THEN Throw(r)
  ELSE [r EXCEPT !.pc = "renFile"]

\* DELETE /api/folders?folderId=
FolderDeleteBegin(r) ==
  IF Unauthorized(r.user) THEN Respond(r, ErrorResp(401))
  ELSE IF r.id = Null THEN Respond(r, ErrorResp(400))
  ELSE IF ConfigMissing THEN Throw(r)
  ELSE [r EXCEPT !.pc = "delFolder"]

\* PATCH /api/folders {folderId, newName}: newName.trim() throws on a missing name.
FolderRenameBegin(r) ==
  IF Unauthorized(r.user) THEN Respond(r, ErrorResp(401))
  ELSE IF r.id = Null THEN Respond(r, ErrorResp(400))
  ELSE IF r.name = Missing THEN Throw(r)
  ELSE IF IsBlank(r.name) THEN Respond(r, ErrorResp(400))
  ELSE IF ConfigMissing THEN Throw(r)
  ELSE [r EXCEPT !.pc = "renFolder"]

Ok200 == [NoResp EXCEPT !.status = 200]

\* fetch drive/files/delete {fileId}
DeleteFile(s) ==
  /\ reqs[s].pc = "delFile"
  /\ LET r == reqs[s]
         r1 == Logged(r, Call("files/delete", << >>, r.id,
                              r.id \in FileIds => FileInNamespace(r.user, r.id)))
     IN  \/ /\ r.id \in FileIds
            /\ files' = {f \in files : f.id # r.id}
            /\ reqs' = [reqs EXCEPT ![s] = Respond(r1, Ok200)]
            /\ UNCHANGED <<folders, nextId>>
         \/ /\ reqs' = [reqs EXCEPT ![s] = Throw(Failed(r1))]
            /\ UNCHANGED remote
  /\ UNCHANGED <<fixed, view>>

\* fetch drive/files/update {fileId, name: newName}
RenameFile(s) ==
  /\ reqs[s].pc = "renFile"
  /\ LET r == reqs[s]
         r1 == Logged(r, Call("files/update", r.name, r.id,
                              r.id \in FileIds => FileInNamespace(r.user, r.id)))
     IN  \/ /\ r.id \in FileIds
            /\ files' = {IF f.id = r.id THEN [f EXCEPT !.name = r.name] ELSE f : f \in files}
            /\ reqs' = [reqs EXCEPT ![s] = Respond(r1, Ok200)]
            /\ UNCHANGED <<folders, nextId>>
         \/ /\ reqs' = [reqs EXCEPT ![s] = Throw(Failed(r1))]
            /\ UNCHANGED remote
  /\ UNCHANGED <<fixed, view>>

\* fetch drive/folders/delete {folderId}: the folder goes with what it holds.
DeleteFolder(s) ==
  /\ reqs[s].pc = "delFolder"
  /\ LET r == reqs[s]
         r1 == Logged(r, Call("folders/delete", << >>, r.id,
                              r.id \in FolderIds => FolderInNamespace(r.user, r.id)))
         gone == {f.id : f \in {g \in folders : IsUnder(folders, g.id, {r.id})}}
     IN  \/ /\ r.id \in FolderIds
            /\ folders' = {f \in folders : f.id \notin gone}
            /\ files' = {f \in files : f.folderId \notin gone}
            /\ reqs' = [reqs EXCEPT ![s] = Respond(r1, Ok200)]
            /\ UNCHANGED nextId
         \/ /\ reqs' = [reqs EXCEPT ![s] = Throw(Failed(r1))]
            /\ UNCHANGED remote
  /\ UNCHANGED <<fixed, view>>

\* Mutant: the update also moves the folder into itself.
UpdatedFolderMut(f, newName) == [f EXCEPT !.name = newName, !.parentId = f.id]

\* The body of drive/folders/update carries folderId and name, and no parentId.
UpdatedFolder(f, newName) == [f EXCEPT !.name = newName]

\* fetch drive/folders/update {folderId, name: newName}
RenameFolder(s) ==
  /\ reqs[s].pc = "renFolder"
  /\ LET r == reqs[s]
         r1 == Logged(r, Call("folders/update", r.name, r.id,
                              r.id \in FolderIds => FolderInNamespace(r.user, r.id)))
     IN  \/ /\ r.id \in FolderIds
            /\ folders' = {IF f.id = r.id THEN UpdatedFolder(f, r.name) ELSE f : f \in folders}
            /\ reqs' = [reqs EXCEPT ![s] = Respond(r1, Ok200)]
            /\ UNCHANGED <<files, nextId>>
         \/ /\ reqs' = [reqs EXCEPT ![s] = Throw(Failed(r1))]
            /\ UNCHANGED remote
  /\ UNCHANGED <<fixed, view>>

\* ------------------------------------------------------------------ POST /api/upload
\* The handler that takes the target from the form's `path`.
UploadBegin(r) ==
  IF Unauthorized(r.user) THEN Respond(r, ErrorResp(401))
  ELSE IF r.path = Missing THEN Throw(r)
  ELSE IF ~OwnPath(r.path, r.user) THEN Respond(r, ErrorResp(403))
  ELSE IF ConfigMissing THEN Throw(r)
  ELSE BeginResolve(r, r.path)

\* getUserRootFolderId(userId): find or create bucket/<userId>.
GetUserRootFolderId(r) == BeginResolve(r, BucketPath(r.user))

\* session.currentFolderId of a cookie whose JSON value has no such field.
Undefined == Null - 1

\* The handler that takes the target from the drive-session cookie: a cookie
\* that parses hands over whatever its currentFolderId is.
UploadSessionBegin(r) ==
  IF Unauthorized(r.user) THEN Respond(r, ErrorResp(401))
  ELSE IF ConfigMissing THEN Throw(r)
  ELSE IF r.cookie = "ok" THEN UploadLoop([r EXCEPT !.cur = r.id])
  ELSE GetUserRootFolderId(r)

\* The drive stores an uploaded file in an existing folder (or at the top level).
CanUpload(folderId) == nextId <= MaxId /\ (folderId = Null \/ folderId \in FolderIds)

\* Mutant: the folderId is left out of the form, so the file lands at the top level.
StoredFileMut(r, file) ==
  [id |-> nextId, name |-> file.name, type |-> file.type, folderId |-> Null]

\* fileFormData: the file, and the folderId it is to be stored in.
StoredFile(r, file) ==
  [id |-> nextId, name |-> file.name, type |-> file.type, folderId |-> r.cur]

\* Mutant: a failed upload is skipped and the loop goes on with the next file.
UploadFailedMut(r) == UploadLoop([r EXCEPT !.idx = @ + 1])

\* A failed upload: throw new Error(`Failed to upload file ...`), caught as a 500.
UploadFailed(r) == Throw(r)

\* One iteration of the loop: fetch drive/files/create for the next file.
UploadFile(s) ==
  /\ reqs[s].pc = "upload"
  /\ LET r == reqs[s]
         file == r.uploads[r.idx + 1]
         r1 == Logged(r, Call("files/create", file.name, r.cur,
                              r.cur # Null /\ (r.cur \in FolderIds => FolderInNamespace(r.user, r.cur))))
     IN  \/ /\ CanUpload(r.cur)
            /\ files' = files \cup {StoredFile(r, file)}
            /\ nextId' = nextId + 1
            /\ reqs' = [reqs EXCEPT ![s] =
                 UploadLoop([r1 EXCEPT !.results = Append(@, nextId), !.idx = @ + 1])]
            /\ UNCHANGED folders
         \/ /\ reqs' = [reqs EXCEPT ![s] = UploadFailed(Failed(r1))]
            /\ UNCHANGED remote
  /\ UNCHANGED <<fixed, view>>

\* ------------------------------------------------------------------ search, initialize
\* searchParams.get('path') || `bucket/${userId}`, then path.startsWith(`bucket/${userId}`)
SearchPath(r) == IF r.path = << >> THEN BucketPath(r.user) ELSE r.path
SearchAllowed(path, userId) == StartsWith(path, BucketPath(userId))

SearchBegin(r) ==
  IF Unauthorized(r.user) THEN Respond(r, ErrorResp(401))
  ELSE IF ~SearchAllowed(SearchPath(r), r.user) THEN Respond(r, ErrorResp(403))
  ELSE IF ConfigMissing THEN Throw(r)
  ELSE [r EXCEPT !.pc = "bfind", !.phase = 1]

InitializeBegin(r) ==
  IF Unauthorized(r.user) THEN Respond(r, ErrorResp(401))
  ELSE IF ConfigMissing THEN Throw(r)
  ELSE [r EXCEPT !.pc = "bfind", !.phase = 1]

\* The two-stage walk of getBucketFolderId / initialize: `bucket` at the top level
\* (phase 1), then the user's folder inside it (phase 2).
StageNameMut(r) == Bucket
StageName(r) == IF r.phase = 1 THEN Bucket ELSE r.user
StageParent(r) == IF r.phase = 1 THEN Null ELSE r.bid

\* The stage's folder id is known: go to the next stage, or finish the walk.
StageDone(r, id) ==
  IF r.phase = 1 THEN [r EXCEPT !.bid = id, !.phase = 2, !.pc = "bfind"]
  ELSE IF r.kind = "search" THEN [r EXCEPT !.cur = id, !.pc = "search"]
  ELSE Respond([r EXCEPT !.cur = id],
               [NoResp EXCEPT !.status = 200, !.rootFolderId = id, !.bucketFolderId = r.bid])

\* fetch folders/find for the stage. A 404 passes the status test, but its body is
\* no array: `.length === 0` is false and `[0].id` throws, like any other failure.
BucketFind(s) ==
  /\ reqs[s].pc = "bfind"
  /\ LET r == reqs[s]
         matches == FindFolders(StageName(r), StageParent(r))
         r1 == Logged(r, Call("find", StageName(r), StageParent(r),
                              WalkInNamespace(r.user, StageName(r), StageParent(r))))
     IN  \/ /\ ~IsEmpty(matches)
            /\ reqs' = [reqs EXCEPT ![s] = StageDone(r1, FirstId(matches))]
         \/ /\ IsEmpty(matches)
            /\ reqs' = [reqs EXCEPT ![s] = [r1 EXCEPT !.pc = "bcreate"]]
         \/ reqs' = [reqs EXCEPT ![s] = Throw(Failed(r1))]
  /\ UNCHANGED <<remote, fixed, view>>

\* fetch folders/create for the stage.
BucketCreate(s) ==
  /\ reqs[s].pc = "bcreate"
  /\ LET r == reqs[s]
         r1 == Logged(r, Call("create", StageName(r), StageParent(r),
                              WalkInNamespace(r.user, StageName(r), StageParent(r))))
     IN  \/ /\ CanCreateFolder(StageParent(r))
            /\ folders' = folders \cup {NewFolder(StageName(r), StageParent(r))}
            /\ nextId' = nextId + 1
            /\ reqs' = [reqs EXCEPT ![s] = StageDone(r1, nextId)]
            /\ UNCHANGED files
         \/ /\ reqs' = [reqs EXCEPT ![s] = Throw(Failed(r1))]
            /\ UNCHANGED remote
  /\ UNCHANGED <<fixed, view>>

\* file.type.startsWith('image/')
IsImage(type) == StartsWith(type, ImagePrefix)

\* The drive's search-by-name {query, folderId}: the folder's files whose name
\* begins with the query.
DriveSearch(query, folderId) == {f \in files : f.folderId = folderId /\ StartsWith(f.name, query)}

\* fetch drive/files/search-by-name, filter for the images view, respond.
SearchFiles(s) ==
  /\ reqs[s].pc = "search"
  /\ LET r == reqs[s]
         r1 == Logged(r, Call("search", r.name, r.cur, FolderInNamespace(r.user, r.cur)))
         found == {FileEntry(f) : f \in DriveSearch(r.name, r.cur)}
     IN  \/ reqs' = [reqs EXCEPT ![s] =
              Respond(r1, [NoResp EXCEPT !.status = 200,
                !.files = IF r.view = "images" THEN {f \in found : IsImage(f.type)} ELSE found])]
         \/ reqs' = [reqs EXCEPT ![s] = Throw(Failed(r1))]
  /\ UNCHANGED <<remote, fixed, view>>

\* ------------------------------------------------------------------ GET /api/download
\* `name` carries the url parameter here.
DownloadBegin(r) ==
  IF Unauthorized(r.user) THEN Respond(r, ErrorResp(401))
  ELSE IF r.id = Null /\ r.name = << >> THEN Respond(r, ErrorResp(400))
  ELSE IF ConfigMissing THEN Throw(r)
  ELSE IF r.id # Null THEN [r EXCEPT !.pc = "show"]
  ELSE [r EXCEPT !.pc = "fetchUrl"]

\* fetch drive/files/show {fileId}
ShowFile(s) ==
  /\ reqs[s].pc = "show"
  /\ LET r == reqs[s]
         r1 == Logged(r, Call("files/show", << >>, r.id,
                              r.id \in FileIds => FileInNamespace(r.user, r.id)))
     IN  \/ /\ r.id \in FileIds
            /\ reqs' = [reqs EXCEPT ![s] = [r1 EXCEPT !.pc = "fetchUrl"]]
         \/ reqs' = [reqs EXCEPT ![s] = Throw(Failed(r1))]
  /\ UNCHANGED <<remote, fixed, view>>

\* fetch(fileInfo.url) or fetch(url): whatever answers is re-emitted with status 200;
\* only a fetch that throws is an error.
FetchUrl(s) ==
  /\ reqs[s].pc = "fetchUrl"
  /\ LET r == reqs[s]
         r1 == Logged(r, Call("fetch", r.name, r.id, TRUE))
     IN  \/ reqs' = [reqs EXCEPT ![s] = Respond(r1, Ok200)]
         \/ \* a non-success answer is not tested: its body goes out with status 200
            reqs' = [reqs EXCEPT ![s] = Respond(Failed(r1), Ok200)]
         \/ \* fetch itself throws
            reqs' = [reqs EXCEPT ![s] = Throw(Failed(r1))]
  /\ UNCHANGED <<remote, fixed, view>>

\* ------------------------------------------------------------------ API clients
\* Any client may call the routes with any parameters; the session only decides
\* the caller identity that auth() reports.
ApiSlot == "s1"
ApiUsers == Users \cup {NoUser}
PathInputs == {<< >>, Slash, BucketPath(UserA), BucketPath(UserA) \o Slash,
               BucketPath(UserAB) \o Slash, BucketPath(UserAB) \o Slash \o Docs}
ViewInputs == {"all", "images"}
FilePng == [name |-> <<"p">>, type |-> ImagePng]
FileTxt == [name |-> <<"t">>, type |-> TextPlain]
UploadInputs == {<< >>, <<FilePng>>, <<FileTxt, FilePng>>, <<FilePng, FileTxt, FilePng>>}
NewNames == {Docs, <<" ">>, << >>, Missing}
FileIdInputs == FileIds \cup {Null, nextId}
FolderIdInputs == FolderIds \cup {Null, nextId}

CanStart == AllIdle /\ nreq < MaxReqs

Launch(r) ==
  /\ CanStart
  /\ reqs' = [reqs EXCEPT ![ApiSlot] = r]
  /\ nreq' = nreq + 1
  /\ UNCHANGED <<remote, config, lastInit, ui, view>>

StartList ==
  \E u \in ApiUsers, p \in PathInputs, v \in ViewInputs :
    Launch(ListBegin([NewReq("list", "api", u) EXCEPT !.path = p, !.view = v]))

StartSearch ==
  \E u \in ApiUsers, p \in PathInputs, v \in ViewInputs, q \in {<< >>, <<"p">>} :
    Launch(SearchBegin([NewReq("search", "api", u) EXCEPT !.path = p, !.view = v, !.name = q]))

StartMkdir ==
  \E u \in ApiUsers, p \in PathInputs \cup {Missing}, n \in {Photos, Docs, Missing} :
    Launch(MkdirBegin([NewReq("mkdir", "api", u) EXCEPT !.path = p, !.name = n]))

StartUpload ==
  \E u \in ApiUsers, p \in PathInputs \cup {Missing}, fs \in UploadInputs :
    Launch(UploadBegin([NewReq("upload", "api", u) EXCEPT !.path = p, !.uploads = fs]))

StartUploadSession ==
  \E u \in ApiUsers, c \in {"none", "bad", "ok"}, fs \in UploadInputs :
    \E id \in IF c = "ok" THEN FolderIds \cup {nextId, Undefined} ELSE {Null} :
      Launch(UploadSessionBegin(
        [NewReq("uploadSession", "api", u) EXCEPT !.cookie = c, !.id = id, !.uploads = fs]))

StartFileDelete ==
  \E u \in ApiUsers, id \in FileIdInputs :
    Launch(FileDeleteBegin([NewReq("delFile", "api", u) EXCEPT !.id = id]))

StartFileRename ==
  \E u \in ApiUsers, id \in FileIdInputs, n \in NewNames :
    Launch(FileRenameBegin([NewReq("renFile", "api", u) EXCEPT !.id = id, !.name = n]))

StartFolderDelete ==
  \E u \in ApiUsers, id \in FolderIdInputs :
    Launch(FolderDeleteBegin([NewReq("delFolder", "api", u) EXCEPT !.id = id]))

StartFolderRename ==
  \E u \in ApiUsers, id \in FolderIdInputs, n \in NewNames :
    Launch(FolderRenameBegin([NewReq("renFolder", "api", u) EXCEPT !.id = id, !.name = n]))

StartDownload ==
  \E u \in ApiUsers, id \in FileIdInputs, url \in {<< >>, <<"u">>} :
    Launch(DownloadBegin([NewReq("download", "api", u) EXCEPT !.id = id, !.name = url]))

StartInitialize ==
  \E u \in ApiUsers : Launch(InitializeBegin(NewReq("initialize", "api", u)))

\* The response reaches the API client; the request is over.
Deliver(s) ==
  /\ reqs[s].pc = "done"
  /\ reqs[s].origin = "api"
  /\ reqs' = [reqs EXCEPT ![s] = IdleReq]
  /\ lastInit' = IF reqs[s].kind = "initialize" /\ reqs[s].resp.status = 200
                  THEN [lastInit EXCEPT ![reqs[s].user] = reqs[s].resp]
                  ELSE lastInit
  /\ UNCHANGED <<remote, config, nreq, ui, view>>

\* ------------------------------------------------------------------ CloudDrive view
\* The signed-in user of the browser session (useAuth().userId).
ViewUser == UserA
NoOp == [op |-> "none", from |-> << >>, name |-> << >>, failed |-> FALSE]
NoListing == [path |-> << >>, view |-> ""]
UserOp(op, name) == [op |-> op, from |-> currentPath, name |-> name, failed |-> FALSE]

AnyIdle == \E s \in Slots : Idle(s)
FreeSlot == CHOOSE s \in Slots : Idle(s) /\ (s = "s1" \/ ~Idle("s1"))

\* fetchFilesAndFolders up to its await: GET /api/files?path=<currentPath>&view=<currentView>
FetchRequest(path, viewName) ==
  ListBegin([NewReq("list", "view", ViewUser) EXCEPT !.path = path, !.view = viewName])

\* The effect on [currentPath, currentView]: a changed value starts a fetch.
Refetch(path, viewName) ==
  IF path = currentPath /\ viewName = currentView
  THEN UNCHANGED <<reqs, isLoading>>
  ELSE /\ AnyIdle
       /\ reqs' = [reqs EXCEPT ![FreeSlot] = FetchRequest(path, viewName)]
       /\ isLoading' = TRUE

\* path.startsWith('/') ? path : `/${path}`
NormalizedPath(path) == IF StartsWith(path, Slash) THEN path ELSE Slash \o path

\* handleNavigate(path)
HandleNavigate(path, op) ==
  /\ nview < MaxViewOps
  /\ currentPath' = NormalizedPath(path)
  /\ Refetch(NormalizedPath(path), currentView)
  /\ nview' = nview + 1
  /\ lastOp' = op
  /\ UNCHANGED <<remote, fixed, currentView, viewFiles, viewFolders, shown>>

\* A click on a folder row: onNavigate(folder.path)
ClickFolder ==
  \E f \in viewFolders :
    HandleNavigate(f.path, UserOp(IF NormalizedPath(f.path) = currentPath THEN "same" ELSE "into",
                                  f.name))

\* `/${parts.join('/')}`
RECURSIVE JoinPath(_)
JoinPath(parts) ==
  IF parts = << >> THEN << >>
  ELSE IF Len(parts) = 1 THEN Head(parts)
  ELSE Head(parts) \o Slash \o JoinPath(Tail(parts))

\* getBreadcrumbs(): Home at '/', then one crumb per part, each path ending in '/'.
RECURSIVE CrumbPaths(_, _)
CrumbPaths(parts, built) ==
  IF parts = << >> THEN {}
  ELSE {built \o Head(parts) \o Slash} \cup CrumbPaths(Tail(parts), built \o Head(parts) \o Slash)
Breadcrumbs(path) == {Slash} \cup CrumbPaths(Split(path), Slash)

\* A click on a breadcrumb: handleNavigate(crumb.path)
ClickCrumb ==
  \E c \in Breadcrumbs(currentPath) : HandleNavigate(c, UserOp("crumb", << >>))

\* The path navigateUp() moves to.
ParentPath(path) ==
  LET parts == Split(path)
      rest == SubSeq(parts, 1, Len(parts) - 1)
  IN  IF rest = << >> THEN Slash ELSE Slash \o JoinPath(rest)

\* navigateUp()
NavigateUp ==
  /\ nview < MaxViewOps
  /\ currentPath # Slash
  /\ currentPath' = ParentPath(currentPath)
  /\ Refetch(ParentPath(currentPath), currentView)
  /\ nview' = nview + 1
  /\ lastOp' = IF lastOp.op = "into"
                THEN [lastOp EXCEPT !.op = "intoUp"]
                ELSE UserOp("up", << >>)
  /\ UNCHANGED <<remote, fixed, currentView, viewFiles, viewFolders, shown>>

\* handleViewChange(view)
HandleViewChange ==
  \E v \in ViewInputs :
    LET path == IF v = "images" THEN Slash ELSE currentPath IN
      /\ nview < MaxViewOps
      /\ currentView' = v
      /\ currentPath' = path
      /\ Refetch(path, v)
      /\ nview' = nview + 1
      /\ lastOp' = UserOp("view", << >>)
      /\ UNCHANGED <<remote, fixed, viewFiles, viewFolders, shown>>

\* handleCreateFolder() up to its await: POST /api/folders {path: currentPath, name}
HandleCreateFolder ==
  \E n \in {Photos} :
    /\ nview < MaxViewOps
    /\ AnyIdle
    /\ reqs' = [reqs EXCEPT ![FreeSlot] =
         MkdirBegin([NewReq("mkdir", "view", ViewUser) EXCEPT !.path = currentPath, !.name = n])]
    /\ nview' = nview + 1
    /\ lastOp' = UserOp("mkdir", n)
    /\ UNCHANGED <<remote, fixed, currentPath, currentView, viewFiles, viewFolders,
                   isLoading, shown>>

\* What the view shows of a listing that was asked for with view `viewName`.
ShownFiles(viewName, respFiles) ==
  IF viewName = "images" THEN {f \in respFiles : IsImage(f.type)} ELSE respFiles
ShownFoldersMut(viewName, respFolders) == respFolders
ShownFolders(viewName, respFolders) ==
  IF viewName = "images" THEN {} ELSE respFolders

\* The ghost's note that a response reported a failed upstream call.
Noted(status) == [lastOp EXCEPT !.failed = @ \/ status = 500]

\* Mutant: a response is dropped when the view has moved on since it was asked for.
ArrivedMut(r) ==
  r.resp.status = 200 /\ r.view = currentView /\ (r.kind = "list" => r.path = currentPath)

\* response.ok: the listing of the response is put on display.
Arrived(r) == r.resp.status = 200

\* fetchFilesAndFolders after its await: the response of GET /api/files arrives.
ApplyList(s) ==
  /\ reqs[s].pc = "done" /\ reqs[s].origin = "view" /\ reqs[s].kind = "list"
  /\ LET r == reqs[s] IN
       /\ IF Arrived(r)
          THEN /\ viewFiles' = ShownFiles(r.view, r.resp.files)
               /\ viewFolders' = ShownFolders(r.view, r.resp.folders)
               /\ shown' = [path |-> r.path, view |-> r.view]
          ELSE UNCHANGED <<viewFiles, viewFolders, shown>>
       /\ isLoading' = FALSE
       /\ lastOp' = Noted(r.resp.status)
  /\ reqs' = [reqs EXCEPT ![s] = IdleReq]
  /\ UNCHANGED <<remote, fixed, currentPath, currentView, nview>>

\* handleCreateFolder after its await: on success the listing is fetched again.
ApplyCreateFolder(s) ==
  /\ reqs[s].pc = "done" /\ reqs[s].origin = "view" /\ reqs[s].kind = "mkdir"
  /\ IF reqs[s].resp.status = 200
     THEN /\ reqs' = [reqs EXCEPT ![s] = FetchRequest(currentPath, currentView)]
          /\ isLoading' = TRUE
     ELSE /\ reqs' = [reqs EXCEPT ![s] = IdleReq]
          /\ UNCHANGED isLoading
  /\ lastOp' = Noted(reqs[s].resp.status)
  /\ UNCHANGED <<remote, fixed, currentPath, currentView, viewFiles, viewFolders, nview, shown>>

\* handleSearch() up to its await: a blank query fetches the listing again, any
\* other query asks GET /api/search?path=bucket/<userId>&query=&view=<currentView>.
SearchRequest(query, viewName) ==
  SearchBegin([NewReq("search", "view", ViewUser) EXCEPT
                 !.path = BucketPath(ViewUser), !.name = query, !.view = viewName])

HandleSearch ==
  \E q \in {<<"p">>, <<" ">>} :
    /\ nview < MaxViewOps
    /\ AnyIdle
    /\ reqs' = [reqs EXCEPT ![FreeSlot] =
         IF IsBlank(q) THEN FetchRequest(currentPath, currentView)
         ELSE SearchRequest(q, currentView)]
    /\ isLoading' = TRUE
    /\ nview' = nview + 1
    /\ lastOp' = UserOp("search", q)
    /\ UNCHANGED <<remote, fixed, currentPath, currentView, viewFiles, viewFolders, shown>>

\* handleSearch after its await: the response of GET /api/search arrives.
ApplySearch(s) ==
  /\ reqs[s].pc = "done" /\ reqs[s].origin = "view" /\ reqs[s].kind = "search"
  /\ LET r == reqs[s] IN
       /\ IF Arrived(r)
          THEN /\ viewFiles' = ShownFiles(r.view, r.resp.files)
               /\ viewFolders' = ShownFolders(r.view, r.resp.folders)
               /\ shown' = [path |-> r.path, view |-> r.view]
          ELSE UNCHANGED <<viewFiles, viewFolders, shown>>
       /\ isLoading' = FALSE
       /\ lastOp' = Noted(r.resp.status)
  /\ reqs' = [reqs EXCEPT ![s] = IdleReq]
  /\ UNCHANGED <<remote, fixed, currentPath, currentView, nview>>

\* ------------------------------------------------------------------ initial states
EmptyDrive == [folders |-> {}, files |-> {}, nextId |-> 1]
SeededDrive ==
  [folders |-> {[id |-> 1, name |-> Bucket, parentId |-> Null],
                [id |-> 2, name |-> UserA, parentId |-> 1],
                [id |-> 3, name |-> UserAB, parentId |-> 1],
                [id |-> 4, name |-> Docs, parentId |-> 3]},
   files |-> {[id |-> 5, name |-> <<"p">>, type |-> ImagePng, folderId |-> 4],
              [id |-> 6, name |-> <<"t">>, type |-> TextPlain, folderId |-> 2]},
   nextId |-> 7]
\* A drive on which two folders of one name share a parent.
TwinDrive ==
  [folders |-> {[id |-> 1, name |-> Bucket, parentId |-> Null],
                [id |-> 2, name |-> UserAB, parentId |-> 1],
                [id |-> 3, name |-> Docs, parentId |-> 2],
                [id |-> 4, name |-> Docs, parentId |-> 2],
                [id |-> 5, name |-> UserA, parentId |-> 1]},
   files |-> {[id |-> 6, name |-> <<"p">>, type |-> ImagePng, folderId |-> 4]},
   nextId |-> 7]
InitDrives == {EmptyDrive, SeededDrive, TwinDrive}

Init ==
  /\ \E d \in InitDrives : folders = d.folders /\ files = d.files /\ nextId = d.nextId
  /\ reqs = [s \in Slots |-> IdleReq]
  /\ config \in BOOLEAN
  /\ nreq = 0
  /\ lastInit = [u \in Users |-> NoResp]
  /\ renameState = NoRename
  /\ searchBox = EmptySearchBox
  /\ currentPath = Slash
  /\ currentView = "all"
  /\ viewFiles = {}
  /\ viewFolders = {}
  /\ isLoading = TRUE
  /\ nview = 0
  /\ lastOp = NoOp
  /\ shown = NoListing

Step(s) ==
  \/ ResolveFind(s)
  \/ ResolveCreate(s)
  \/ ListFiles(s)
  \/ ListFolders(s)
  \/ CreateFolder(s)
  \/ DeleteFile(s)
  \/ RenameFile(s)
  \/ DeleteFolder(s)
  \/ RenameFolder(s)
  \/ UploadFile(s)
  \/ BucketFind(s)
  \/ BucketCreate(s)
  \/ SearchFiles(s)
  \/ ShowFile(s)
  \/ FetchUrl(s)

StartApi ==
  \/ StartList
  \/ StartSearch
  \/ StartMkdir
  \/ StartUpload
  \/ StartUploadSession
  \/ StartFileDelete
  \/ StartFileRename
  \/ StartFolderDelete
  \/ StartFolderRename
  \/ StartDownload
  \/ StartInitialize

Next ==
  \/ StartApi
  \/ \E s \in Slots : Step(s) \/ Deliver(s)

Spec == Init /\ [][Next]_vars

\* Sequential calls of GET /api/initialize, by either user, on each initial drive.
CallInitialize ==
  \E u \in Users :
    /\ AllIdle /\ nreq < MaxInitCalls
    /\ reqs' = [reqs EXCEPT ![ApiSlot] = InitializeBegin(NewReq("initialize", "api", u))]
    /\ nreq' = nreq + 1
    /\ UNCHANGED <<remote, config, lastInit, ui, view>>

NextInitialize ==
  \/ CallInitialize
  \/ \E s \in Slots : BucketFind(s) \/ BucketCreate(s) \/ Deliver(s)

SpecInitialize == Init /\ [][NextInitialize]_vars

\* getFolderIdFromPath applied to any path by its caller in the upload handler
\* (from `const folderId = await getFolderIdFromPath(path)` on), next to the
\* handlers that call it after their own checks.
ResolveInputs == {Slash, << >>, Docs, BucketPath(UserA) \o Slash}

CallResolve ==
  \E u \in Users, p \in ResolveInputs, fs \in UploadInputs :
    /\ CanStart /\ ~ConfigMissing
    /\ reqs' = [reqs EXCEPT ![ApiSlot] =
         BeginResolve([NewReq("upload", "fn", u) EXCEPT !.path = p, !.uploads = fs], p)]
    /\ nreq' = nreq + 1
    /\ UNCHANGED <<remote, config, lastInit, ui, view>>

\* The caller has its answer.
Return(s) ==
  /\ reqs[s].pc = "done" /\ reqs[s].origin = "fn"
  /\ reqs' = [reqs EXCEPT ![s] = IdleReq]
  /\ UNCHANGED <<remote, fixed, view>>

NextResolve ==
  \/ CallResolve
  \/ StartList \/ StartMkdir \/ StartUpload
  \/ \E s \in Slots : ResolveFind(s) \/ ResolveCreate(s) \/ ListFiles(s) \/ ListFolders(s)
                        \/ CreateFolder(s) \/ UploadFile(s) \/ Deliver(s) \/ Return(s)

SpecResolve == Init /\ [][NextResolve]_vars

\* Two requests in flight at once on a drive without same-named siblings: each
\* slot takes one request, a listing of "/" or an upload into bucket/<userId>/Docs/.
RaceDrives == {EmptyDrive, SeededDrive}

InitRace ==
  /\ \E d \in RaceDrives : folders = d.folders /\ files = d.files /\ nextId = d.nextId
  /\ config \in BOOLEAN
  /\ reqs = [s \in Slots |-> IdleReq]
  /\ nreq = 0
  /\ lastInit = [u \in Users |-> NoResp]
  /\ renameState = NoRename
  /\ searchBox = EmptySearchBox
  /\ currentPath = Slash
  /\ currentView = "all"
  /\ viewFiles = {}
  /\ viewFolders = {}
  /\ isLoading = TRUE
  /\ nview = 0
  /\ lastOp = NoOp
  /\ shown = NoListing

RaceRequests(u) ==
  {ListBegin([NewReq("list", "api", u) EXCEPT !.path = Slash]),
   UploadBegin([NewReq("upload", "api", u) EXCEPT
                  !.path = BucketPath(u) \o Slash \o Docs \o Slash, !.uploads = <<FilePng>>])}

RaceStart(s) ==
  \E u \in Users : \E r \in RaceRequests(u) :
    /\ Idle(s)
    /\ reqs' = [reqs EXCEPT ![s] = r]
    /\ nreq' = nreq + 1
    /\ UNCHANGED <<remote, config, lastInit, ui, view>>

NextRace ==
  \E s \in Slots :
    \/ RaceStart(s)
    \/ ResolveFind(s) \/ ResolveCreate(s) \/ ListFiles(s) \/ ListFolders(s) \/ UploadFile(s)

SpecRace == InitRace /\ [][NextRace]_vars

\* Two requests in flight at once, each an initialize, a search or a listing of
\* "/": the three handlers that look up `bucket` and the caller's folder in it.
BucketRequests(u) ==
  {InitializeBegin(NewReq("initialize", "api", u)),
   SearchBegin([NewReq("search", "api", u) EXCEPT !.name = <<"p">>]),
   ListBegin([NewReq("list", "api", u) EXCEPT !.path = Slash])}

BucketRaceStart(s) ==
  \E u \in Users : \E r \in BucketRequests(u) :
    /\ Idle(s)
    /\ reqs' = [reqs EXCEPT ![s] = r]
    /\ nreq' = nreq + 1
    /\ UNCHANGED <<remote, config, lastInit, ui, view>>

NextBucketRace ==
  \E s \in Slots :
    \/ BucketRaceStart(s)
    \/ BucketFind(s) \/ BucketCreate(s) \/ SearchFiles(s)
    \/ ResolveFind(s) \/ ResolveCreate(s) \/ ListFiles(s) \/ ListFolders(s)

SpecBucketRace == InitRace /\ [][NextBucketRace]_vars

\* A listing in flight next to one other request that deletes or creates a
\* folder, or lists as well: each slot takes one request.
ListRaceRequests(u) ==
  {ListBegin([NewReq("list", "api", u) EXCEPT !.path = p]) :
     p \in {Slash, BucketPath(u) \o Slash \o Docs}}
  \cup {FolderDeleteBegin([NewReq("delFolder", "api", u) EXCEPT !.id = id]) : id \in FolderIds}
  \cup {MkdirBegin([NewReq("mkdir", "api", u) EXCEPT !.path = BucketPath(u) \o Slash, !.name = Docs])}

ListRaceStart(s) ==
  \E u \in Users : \E r \in ListRaceRequests(u) :
    /\ Idle(s)
    /\ reqs' = [reqs EXCEPT ![s] = r]
    /\ nreq' = nreq + 1
    /\ UNCHANGED <<remote, config, lastInit, ui, view>>

NextListRace ==
  \E s \in Slots :
    \/ ListRaceStart(s)
    \/ ResolveFind(s) \/ ResolveCreate(s) \/ ListFiles(s) \/ ListFolders(s)
    \/ DeleteFolder(s) \/ CreateFolder(s)

SpecListRace == InitRace /\ [][NextListRace]_vars

\* The CloudDrive view of one signed-in user on a drive that holds their folders:
\* the mount effect has started the first fetch.
ViewDrive ==
  [folders |-> {[id |-> 1, name |-> Bucket, parentId |-> Null],
                [id |-> 2, name |-> ViewUser, parentId |-> 1],
                [id |-> 3, name |-> Photos, parentId |-> 2],
                [id |-> 4, name |-> Docs, parentId |-> 2]},
   files |-> {[id |-> 5, name |-> <<"p">>, type |-> ImagePng, folderId |-> 2],
              [id |-> 6, name |-> <<"t">>, type |-> TextPlain, folderId |-> 2]},
   nextId |-> 7]
InitViewDrives == {EmptyDrive, ViewDrive}

InitView ==
  /\ \E d \in InitViewDrives : folders = d.folders /\ files = d.files /\ nextId = d.nextId
  /\ config \in BOOLEAN
  /\ reqs = [s \in Slots |-> IF s = "s1" THEN FetchRequest(Slash, "all") ELSE IdleReq]
  /\ nreq = 0
  /\ lastInit = [u \in Users |-> NoResp]
  /\ renameState = NoRename
  /\ searchBox = EmptySearchBox
  /\ currentPath = Slash
  /\ currentView = "all"
  /\ viewFiles = {}
  /\ viewFolders = {}
  /\ isLoading = TRUE
  /\ nview = 0
  /\ lastOp = NoOp
  /\ shown = NoListing

UserAction ==
  \/ ClickFolder
  \/ ClickCrumb
  \/ NavigateUp
  \/ HandleViewChange
  \/ HandleCreateFolder

NextView ==
  \/ UserAction
  \/ \E s \in Slots : ResolveFind(s) \/ ResolveCreate(s) \/ ListFiles(s) \/ ListFolders(s)
                        \/ ApplyList(s) \/ ApplyCreateFolder(s)

SpecView == InitView /\ [][NextView]_vars

\* The CloudDrive view with its search box, its view tabs and its folder rows:
\* listings and searches may overlap.
NextSearchView ==
  \/ ClickFolder
  \/ HandleViewChange
  \/ HandleSearch
  \/ \E s \in Slots : ResolveFind(s) \/ ResolveCreate(s) \/ ListFiles(s) \/ ListFolders(s)
                        \/ BucketFind(s) \/ BucketCreate(s) \/ SearchFiles(s)
                        \/ ApplyList(s) \/ ApplySearch(s)

SpecSearchView == InitView /\ [][NextSearchView]_vars

\* ------------------------------------------------------------------ second CloudDrive page
\* The other CloudDrive page of the repository (src/unnamed/part_002): its fetch
\* prefixes the path, its handlers set the path as given, and its view
\* selector is wired to setCurrentView.

\* fetchFilesAndFolders up to its await: path = `bucket/${userId}${currentPath}`
FetchRequestV2(path, viewName) ==
  ListBegin([NewReq("list", "view", ViewUser) EXCEPT
               !.path = BucketPath(ViewUser) \o path, !.view = viewName])

\* The effect on [currentPath, currentView] of that page (the user acts on it
\* once the listing asked for before has arrived).
RefetchV2(path, viewName) ==
  IF path = currentPath /\ viewName = currentView
  THEN UNCHANGED <<reqs, isLoading>>
  ELSE /\ AllIdle
       /\ reqs' = [reqs EXCEPT ![FreeSlot] = FetchRequestV2(path, viewName)]
       /\ isLoading' = TRUE

\* handleNavigate(path): setCurrentPath(path)
HandleNavigateV2(path, op) ==
  /\ nview < MaxViewOps
  /\ currentPath' = path
  /\ RefetchV2(path, currentView)
  /\ nview' = nview + 1
  /\ lastOp' = op
  /\ UNCHANGED <<remote, fixed, currentView, viewFiles, viewFolders, shown>>

ClickFolderV2 == \E f \in viewFolders : HandleNavigateV2(f.path, UserOp("into", f.name))

ClickCrumbV2 == \E c \in Breadcrumbs(currentPath) : HandleNavigateV2(c, UserOp("crumb", << >>))

\* parts.length === 0 ? '/' : '/' + parts.join('/') + '/'
ParentPathV2(path) ==
  LET parts == Split(path)
      rest == SubSeq(parts, 1, Len(parts) - 1)
  IN  IF rest = << >> THEN Slash ELSE Slash \o JoinPath(rest) \o Slash

\* navigateUp()
NavigateUpV2 ==
  /\ nview < MaxViewOps
  /\ currentPath # Slash
  /\ currentPath' = ParentPathV2(currentPath)
  /\ RefetchV2(ParentPathV2(currentPath), currentView)
  /\ nview' = nview + 1
  /\ lastOp' = UserOp("up", << >>)
  /\ UNCHANGED <<remote, fixed, currentView, viewFiles, viewFolders, shown>>

\* <Tabs onValueChange={setCurrentView}> and the two sidebar buttons
SetCurrentView ==
  \E v \in ViewInputs :
    /\ nview < MaxViewOps
    /\ currentView' = v
    /\ RefetchV2(currentPath, v)
    /\ nview' = nview + 1
    /\ lastOp' = UserOp("view", << >>)
    /\ UNCHANGED <<remote, fixed, currentPath, viewFiles, viewFolders, shown>>

\* fetchFilesAndFolders after its await: setFiles(data.files), setFolders(data.folders)
ApplyListV2(s) ==
  /\ reqs[s].pc = "done" /\ reqs[s].origin = "view" /\ reqs[s].kind = "list"
  /\ LET r == reqs[s] IN
       /\ IF Arrived(r)
          THEN /\ viewFiles' = r.resp.files
               /\ viewFolders' = r.resp.folders
               /\ shown' = [path |-> r.path, view |-> r.view]
          ELSE UNCHANGED <<viewFiles, viewFolders, shown>>
       /\ isLoading' = FALSE
       /\ lastOp' = Noted(r.resp.status)
  /\ reqs' = [reqs EXCEPT ![s] = IdleReq]
  /\ UNCHANGED <<remote, fixed, currentPath, currentView, nview>>

InitViewV2 ==
  /\ folders = ViewDrive.folders /\ files = ViewDrive.files /\ nextId = ViewDrive.nextId
  /\ config \in BOOLEAN
  /\ reqs = [s \in Slots |-> IF s = "s1" THEN FetchRequestV2(Slash, "all") ELSE IdleReq]
  /\ nreq = 0
  /\ lastInit = [u \in Users |-> NoResp]
  /\ renameState = NoRename
  /\ searchBox = EmptySearchBox
  /\ currentPath = Slash
  /\ currentView = "all"
  /\ viewFiles = {}
  /\ viewFolders = {}
  /\ isLoading = TRUE
  /\ nview = 0
  /\ lastOp = NoOp
  /\ shown = NoListing

NextViewV2 ==
  \/ ClickFolderV2
  \/ ClickCrumbV2
  \/ NavigateUpV2
  \/ SetCurrentView
  \/ \E s \in Slots : ResolveFind(s) \/ ResolveCreate(s) \/ ListFiles(s) \/ ListFolders(s)
                        \/ ApplyListV2(s)

SpecViewV2 == InitViewV2 /\ [][NextViewV2]_vars

\* ------------------------------------------------------------------ CloudDrive inline rename
\* The rows on display: what FolderRow / FileRow hand to onRename.
RenameRows ==
  {[id |-> f.id, isFolder |-> TRUE] : f \in viewFolders}
    \cup {[id |-> f.id, isFolder |-> FALSE] : f \in viewFiles}
\* The names typed into a row's input.
RenameInputs == {<<"n">>, <<" ">>}

\* handleRenameConfirmed() up to its await, for the state `st` its closure holds:
\* nothing selected or a blank name returns at once; else PATCH /api/folders
\* {folderId, newName} or PATCH /api/files {fileId, newName}.  The request keeps
\* the closure's currentPath and currentView for the fetch that follows.
RenameRequest(st) ==
  LET r == [NewReq(IF st.isFolder THEN "renFolder" ELSE "renFile", "view", ViewUser) EXCEPT
              !.id = st.item, !.name = st.newName, !.path = currentPath, !.view = currentView]
  IN  IF st.isFolder THEN FolderRenameBegin(r) ELSE FileRenameBegin(r)

\* Save of a row's inline rename: onRename(row, newName) sets the three state
\* values for the next render and calls handleRenameConfirmed(), which reads the
\* values of the render the handler was created in.
SaveInlineRename ==
  \E row \in RenameRows, n \in RenameInputs :
    /\ nview < MaxViewOps
    /\ IF renameState.item = Null \/ IsBlank(renameState.newName)
       THEN UNCHANGED reqs
       ELSE /\ AnyIdle
            /\ reqs' = [reqs EXCEPT ![FreeSlot] = RenameRequest(renameState)]
    /\ renameState' = [item |-> row.id, isFolder |-> row.isFolder, newName |-> n]
    /\ nview' = nview + 1
    /\ lastOp' = UserOp("rename", n)
    /\ UNCHANGED <<remote, config, nreq, lastInit, searchBox, currentPath, currentView,
                   viewFiles, viewFolders, isLoading, shown>>

\* handleRenameConfirmed() after its await: on success the listing is fetched
\* again; finally the selection is cleared.
ApplyRename(s) ==
  /\ reqs[s].pc = "done" /\ reqs[s].origin = "view" /\ reqs[s].kind \in {"renFolder", "renFile"}
  /\ IF reqs[s].resp.status = 200
     THEN /\ reqs' = [reqs EXCEPT ![s] = FetchRequest(reqs[s].path, reqs[s].view)]
          /\ isLoading' = TRUE
     ELSE /\ reqs' = [reqs EXCEPT ![s] = IdleReq]
          /\ UNCHANGED isLoading
  /\ renameState' = NoRename
  /\ lastOp' = Noted(reqs[s].resp.status)
  /\ UNCHANGED <<remote, config, nreq, lastInit, searchBox, currentPath, currentView,
                 viewFiles, viewFolders, nview, shown>>

NextRename ==
  \/ SaveInlineRename
  \/ \E s \in Slots : ResolveFind(s) \/ ResolveCreate(s) \/ ListFiles(s) \/ ListFolders(s)
                        \/ ApplyList(s) \/ RenameFolder(s) \/ RenameFile(s) \/ ApplyRename(s)

SpecRename == InitView /\ [][NextRename]_vars

\* ------------------------------------------------------------------ FileManager search box
\* The search effect of the FileManager page (src/app/page.tsx) on a page whose
\* client is configured: [searchQuery] is its only dependency that changes.
\* A timer is [query, left]: the query its callback closed over and the ms left.
\* `quiet` is a ghost: the ms since the query last changed, up to SearchDelay.
QueryInputs == {<<"p">>, <<"p", "q">>, <<" ">>}

\* Mutant: the effect has no cleanup.
ClearTimeoutMut(timers, query) == timers

\* return () => clearTimeout(searchTimeout): the cleanup of the effect that ran
\* for `query` cancels the timer that effect started, if it is still pending.
ClearTimeout(timers, query) == {t \in timers : t.query # query}

\* if (... || !searchQuery.trim() || ...) return; else setTimeout(..., 500)
StartTimer(timers, query) ==
  IF IsBlank(query) THEN timers ELSE timers \cup {[query |-> query, left |-> SearchDelay]}

\* onChange: setSearchQuery(e.target.value); the effect's cleanup, then the effect.
SetSearchQuery ==
  \E q \in QueryInputs :
    /\ q # searchBox.query
    /\ searchBox.keys < MaxKeys
    /\ searchBox' = [searchBox EXCEPT
         !.query = q,
         !.timers = StartTimer(ClearTimeout(@, searchBox.query), q),
         !.quiet = 0,
         !.keys = @ + 1]
    /\ UNCHANGED <<remote, reqs, config, nreq, lastInit, renameState, view>>

\* Time passes, as long as no pending timer is due.
Tick ==
  /\ \A t \in searchBox.timers : t.left > 0
  /\ searchBox.quiet < SearchDelay \/ searchBox.timers # {}
  /\ searchBox' = [searchBox EXCEPT
       !.timers = {[t EXCEPT !.left = IF @ > TickMs THEN @ - TickMs ELSE 0] : t \in @},
       !.quiet = IF @ + TickMs < SearchDelay THEN @ + TickMs ELSE SearchDelay]
  /\ UNCHANGED <<remote, reqs, config, nreq, lastInit, renameState, view>>

\* The timer's callback up to its await: setIsLoading(true); client.searchFiles(searchQuery)
FireTimer ==
  \E t \in searchBox.timers :
    /\ t.left = 0
    /\ searchBox' = [searchBox EXCEPT
         !.timers = @ \ {t}, !.inFlight = @ \cup {t.query}, !.loading = TRUE]
    /\ UNCHANGED <<remote, reqs, config, nreq, lastInit, renameState, view>>

\* The callback after its await: setFiles(results), or the catch; then setIsLoading(false).
SearchArrives ==
  \E q \in searchBox.inFlight, ok \in BOOLEAN :
    /\ searchBox' = [searchBox EXCEPT
         !.inFlight = @ \ {q}, !.results = IF ok THEN q ELSE @, !.loading = FALSE]
    /\ UNCHANGED <<remote, reqs, config, nreq, lastInit, renameState, view>>

NextFileManager == SetSearchQuery \/ Tick \/ FireTimer \/ SearchArrives

SpecFileManager == Init /\ [][NextFileManager]_vars

\* ================================================================== claims
Active == {s \in Slots : reqs[s].pc # "idle"}
UploadKinds == {"upload", "uploadSession"}
\* The calls of one kind in a request's log, in the order they were made.
CallsOf(log, op) == SelectSeq(log, LAMBDA c : c.op = op)
\* The request ended in the catch block because an upload call failed.
UploadAborted(r) ==
  /\ r.kind \in UploadKinds /\ r.pc = "done" /\ r.resp.status = 500
  /\ r.log # << >> /\ r.log[Len(r.log)].op = "files/create"

\* C1: a list, search, create-folder or upload request whose path is bucket/U1/...
\* made under another identity U2 is answered 403 and makes no upstream call.
ForeignPath(r) ==
  \E u1 \in Users : u1 # r.user /\ StartsWith(r.path, BucketPath(u1) \o Slash)
C1_CrossUserRejected ==
  \A s \in Active :
    LET r == reqs[s] IN
      (r.kind \in {"list", "search", "mkdir", "upload"} /\ r.user \in Users /\ ForeignPath(r))
        => (r.log = << >> /\ r.pc = "done" /\ r.resp.status = 403)

\* C2: every upstream call made for caller U by list, search, upload, create
\* folder, rename and delete acts on a folder or file under bucket/U/.
C2_CallsStayInNamespace ==
  \A s \in Active :
    LET r == reqs[s] IN
      r.kind \in {"list", "search", "mkdir", "upload", "uploadSession",
                  "delFile", "renFile", "delFolder", "renFolder"}
        => \A i \in DOMAIN r.log : r.log[i].own

\* C3: the two resolutions of one path that a list request runs one after the
\* other return the same folder id, and the second one creates nothing.
SecondWalkCreates(log) ==
  {i \in DOMAIN log : log[i].op = "create" /\ \E j \in 1..(i - 1) : log[j].op = "files"}
C3_ResolveTwiceSame ==
  \A s \in Active :
    LET r == reqs[s] IN
      (r.kind = "list" /\ r.pc = "listFolders")
        => (r.cur = r.fid /\ SecondWalkCreates(r.log) = {})
\* The first walk created a folder, the second found it.
C3_Witness ==
  \E s \in Active :
    LET r == reqs[s] IN
      /\ r.kind = "list" /\ r.pc = "listFolders" /\ r.cur # Null
      /\ CallsOf(r.log, "create") # << >>

\* C5: the upload calls go out one at a time in input order, and after a failed
\* upload no further upload call is made.
C5_UploadsInOrderStopAtFailure ==
  \A s \in Active :
    LET r == reqs[s]
        ups == CallsOf(r.log, "files/create")
    IN  r.kind \in UploadKinds =>
          /\ Len(ups) <= Len(r.uploads)
          /\ \A i \in DOMAIN ups : ups[i].name = r.uploads[i].name
          /\ Len(ups) \in {Len(r.results), Len(r.results) + 1}
          /\ Len(ups) = Len(r.results) + 1 => UploadAborted(r)
\* File 2 of 3 failed: one result, two calls, one file never sent.
C5_Witness ==
  \E s \in Active :
    LET r == reqs[s] IN
      /\ UploadAborted(r) /\ Len(r.uploads) = 3 /\ Len(r.results) = 1
      /\ Len(CallsOf(r.log, "files/create")) = 2

\* C6 as stated: after a failed upload of file k the response carries the
\* results of files 1..k-1.
C6_Original ==
  \A s \in Active :
    LET r == reqs[s] IN UploadAborted(r) => r.resp.results = r.results
\* C6 as amended: after a failed upload of file k the response is the 500 error
\* body alone; it carries no upload result, whatever was uploaded before.
C6_FailureResponseHasNoResults ==
  \A s \in Active :
    LET r == reqs[s] IN
      UploadAborted(r) => (r.resp.status = 500 /\ r.resp.results = << >> /\ r.resp.files = {})
C6_Witness ==
  \E s \in Active : UploadAborted(reqs[s]) /\ Len(reqs[s].results) = 2

\* C7: after an upload batch failed at file k, files 1..k-1 are still in the
\* target folder, the folders created on the way are still there, and the
\* handler made no delete call.
C7_NoRollback ==
  \A s \in Active :
    LET r == reqs[s] IN
      UploadAborted(r) =>
        /\ \A i \in DOMAIN r.results :
              \E f \in files : f.id = r.results[i] /\ f.folderId = r.cur
                                 /\ f.name = r.uploads[i].name
        /\ \A i \in DOMAIN r.log :
              /\ r.log[i].op \notin {"files/delete", "folders/delete"}
              /\ r.log[i].op = "create" => FindFolders(r.log[i].name, r.log[i].id) # {}
\* The batch failed after an upload into a folder the same request had created.
C7_Witness ==
  \E s \in Active :
    LET r == reqs[s] IN
      /\ UploadAborted(r) /\ Len(r.results) >= 1
      /\ CallsOf(r.log, "create") # << >>

\* C10: a request without a caller identity is answered 401 by every handler,
\* makes no upstream call and leaves the drive as it was.
C10_UnauthenticatedIs401 ==
  [][\A s \in Slots :
       (reqs'[s] # reqs[s] /\ reqs'[s].pc # "idle" /\ reqs'[s].user = NoUser)
         => /\ reqs'[s].pc = "done" /\ reqs'[s].resp.status = 401
            /\ reqs'[s].log = << >>
            /\ remote' = remote]_vars
C10_Witness ==
  \E s \in Active :
    reqs[s].kind = "download" /\ reqs[s].user = NoUser /\ reqs[s].resp.status = 401

\* ------------------------------------------------------------------ CloudDrive view claims
PhotosEntry == [name |-> Photos, path |-> Slash \o Photos \o Slash]

\* C4: when the view has created a folder "Photos" at path "/" and every request
\* that followed has been answered without a failed upstream call, the listing
\* of "/" shows a folder entry named "Photos" with path "/Photos/".
C4_CreateThenListShowsFolder ==
  (/\ lastOp.op = "mkdir" /\ lastOp.from = Slash /\ lastOp.name = Photos
   /\ ~lastOp.failed /\ AllIdle)
  => \E e \in viewFolders : e.name = PhotosEntry.name /\ e.path = PhotosEntry.path

C9_IntoThenUpReturns ==
  lastOp.op = "intoUp" => currentPath = lastOp.from

\* ------------------------------------------------------------------ error handling claims
\* The request lacks a field its handler requires.
OmitsRequiredField(r) ==
  \/ r.kind \in {"delFile", "delFolder"} /\ r.id = Null
  \/ r.kind \in {"renFile", "renFolder"} /\ (r.id = Null \/ r.name = Missing)
  \/ r.kind = "download" /\ r.id = Null /\ r.name = << >>
  \/ r.kind = "mkdir" /\ (r.path = Missing \/ r.name = Missing)
  \/ r.kind = "upload" /\ r.path = Missing

\* C11: an authenticated request that omits a required field is answered 400
\* and makes no upstream call.
C11_MissingFieldIs400 ==
  \A s \in Active :
    LET r == reqs[s] IN
      (r.user \in Users /\ OmitsRequiredField(r))
        => (r.pc = "done" /\ r.resp.status = 400 /\ r.log = << >>)

\* C12: a request in which an upstream call was answered with a non-success
\* status ends with HTTP 500 right after that call (no retry, no later call,
\* never 200), and so does a request made while the drive configuration is
\* missing, without any upstream call.
HasFailedCall(r) == \E i \in DOMAIN r.log : ~r.log[i].ok
C12_UpstreamFailureIs500 ==
  \A s \in Active :
    LET r == reqs[s] IN
      /\ HasFailedCall(r) =>
            /\ r.pc = "done" /\ r.resp.status = 500
            /\ \A i \in DOMAIN r.log : ~r.log[i].ok => i = Len(r.log)
      /\ (ConfigMissing /\ r.pc = "done" /\ r.resp.status \notin {400, 401, 403}) =>
            (r.resp.status = 500 /\ r.log = << >>)

\* ------------------------------------------------------------------ initialize, create folder, search
\* C13: after a successful GET /api/initialize a top-level folder `bucket` and a
\* folder named userId under it exist and are the ones returned; a later call
\* by the same user returns the same ids and creates nothing; rootFolderId is
\* what getFolderIdFromPath(bucket/<userId>) returns on that drive.
C13_InitializeIdempotent ==
  \A s \in Active :
    LET r == reqs[s] IN
      (r.kind = "initialize" /\ r.pc = "done" /\ r.resp.status = 200) =>
        /\ [id |-> r.resp.bucketFolderId, name |-> Bucket, parentId |-> Null] \in folders
        /\ [id |-> r.resp.rootFolderId, name |-> r.user, parentId |-> r.resp.bucketFolderId]
             \in folders
        /\ r.resp.rootFolderId = ResolvedId(Split(BucketPath(r.user)), Null)
        /\ lastInit[r.user].status = 200 =>
             /\ r.resp.rootFolderId = lastInit[r.user].rootFolderId
             /\ r.resp.bucketFolderId = lastInit[r.user].bucketFolderId
             /\ CallsOf(r.log, "create") = << >>
\* The second successful call of a user whose first call created both folders.
C13_Witness ==
  \E s \in Active :
    LET r == reqs[s] IN
      /\ r.kind = "initialize" /\ r.pc = "done" /\ r.resp.status = 200
      /\ lastInit[r.user].status = 200
      /\ Cardinality(folders) = 2

\* Folder `id` is the folder for the segments `segs`: it bears the last segment's
\* name and its parent is the folder for the segments before (Null for none).
RECURSIVE IsFolderFor(_, _)
IsFolderFor(id, segs) ==
  IF segs = << >> THEN id = Null
  ELSE \E f \in folders :
         /\ f.id = id /\ f.name = segs[Len(segs)] /\ f.parentId < f.id
         /\ IsFolderFor(f.parentId, SubSeq(segs, 1, Len(segs) - 1))

\* C14: an accepted create-folder request {path, name} creates exactly one
\* folder named `name` in the folder `path` resolves to, and the response
\* carries its id, its name and the path "<segments of path>/<name>/".
C14_CreateFolderResponse ==
  \A s \in Active :
    LET r == reqs[s] IN
      (r.kind = "mkdir" /\ r.name # Missing /\ r.pc = "done" /\ r.resp.status = 200) =>
        /\ IsFolderFor(r.cur, Split(r.path))
        /\ Cardinality({i \in DOMAIN r.log :
                          r.log[i].op = "create" /\ r.log[i].name = r.name
                            /\ r.log[i].id = r.cur}) = 1
        /\ \E e \in r.resp.folder :
              /\ [id |-> e.id, name |-> r.name, parentId |-> r.cur] \in folders
              /\ e.name = r.name
              /\ e.path = JoinPath(Append(Split(r.path), r.name)) \o Slash

RootPath(path) == path = Slash \/ path = << >>
PastResolve(r) == r.pc \in {"listFiles", "listFolders", "createFolder", "upload"}

Twins(f, g) == f.id # g.id /\ f.name = g.name /\ f.parentId = g.parentId
\* The request in slot s has created a folder `name` under `parentId`.
HasCreated(s, name, parentId) ==
  \E i \in DOMAIN reqs[s].log :
    LET c == reqs[s].log[i] IN c.op = "create" /\ c.ok /\ c.name = name /\ c.id = parentId

\* C17: on a drive that starts without same-named siblings, such siblings come
\* to exist only through two requests that each created the segment, that is
\* through interleaved find-then-create walks; and they do come to exist.
C17_TwinsOnlyFromTwoRequests ==
  \A f \in folders, g \in folders :
    Twins(f, g) =>
      \E s \in Slots, t \in Slots :
        s # t /\ HasCreated(s, f.name, f.parentId) /\ HasCreated(t, f.name, f.parentId)
\* Two `bucket` folders at the top level, or two user folders inside one.
C17_Witness ==
  \E f \in folders, g \in folders : Twins(f, g) /\ f.name \in {Bucket, UserA, UserAB}

\* The handlers that resolve a path, and the path each of them resolves.
Resolving(r) == r.origin = "api" /\ r.kind \in {"list", "mkdir", "upload"}
ResolvedPath(r) == IF r.kind = "list" THEN ActualPath(r) ELSE r.path

\* C18: a find or create that fails during a walk is the request's last
\* upstream call, the request ends with 500, and the folders the walk had
\* created before are still on the drive.
C18_FailedWalkAborts ==
  \A s \in Active :
    LET r == reqs[s] IN
      Resolving(r) =>
        \A i \in DOMAIN r.log :
          (r.log[i].op \in {"find", "create"} /\ ~r.log[i].ok) =>
            /\ i = Len(r.log)
            /\ r.pc = "done" /\ r.resp.status = 500
            /\ \A j \in 1..(i - 1) :
                  r.log[j].op = "create" => FindFolders(r.log[j].name, r.log[j].id) # {}
\* The find for a later segment failed after the walk had created an earlier one.
C18_Witness ==
  \E s \in Active :
    LET r == reqs[s] IN
      /\ Resolving(r) /\ r.pc = "done" /\ r.log # << >>
      /\ r.log[Len(r.log)].op = "find" /\ ~r.log[Len(r.log)].ok
      /\ CallsOf(r.log, "create") # << >>

\* The calls `w` are one complete walk over the segments `segs`.
GoodWalk(w, segs) ==
  LET finds == CallsOf(w, "find") IN
    /\ \A k \in DOMAIN w : w[k].op \in {"find", "create"} /\ w[k].ok
    /\ Len(finds) = Len(segs)
    /\ Len(segs) <= Len(w) /\ Len(w) <= 2 * Len(segs)
    /\ \A i \in DOMAIN finds :
          /\ finds[i].name = segs[i]
          /\ IF i = 1 THEN finds[i].id = Null
             ELSE \E f \in folders :
                    f.id = finds[i].id /\ f.name = segs[i - 1] /\ f.parentId = finds[i - 1].id
    /\ \A k \in DOMAIN w :
          w[k].op = "create" =>
            /\ k > 1 /\ w[k - 1].op = "find"
            /\ w[k - 1].name = w[k].name /\ w[k - 1].id = w[k].id
            /\ Cardinality(FindFolders(w[k].name, w[k].id)) = 1

\* C19: a completed walk over n segments consists of one find per segment, in
\* order, each below the folder reached for the segment before, with at most
\* one create right after a find that found nothing: n to 2n calls; the second
\* walk of a listing repeats all n finds.
C19_WalkShape ==
  \A s \in Active :
    LET r == reqs[s]
        segs == Split(ResolvedPath(r))
    IN  Resolving(r) =>
          /\ (r.pc \in {"listFiles", "createFolder"} \/ (r.pc = "upload" /\ r.idx = 0)) =>
                GoodWalk(r.log, segs)
          /\ r.pc = "listFolders" =>
                LET k == CHOOSE k \in DOMAIN r.log : r.log[k].op = "files"
                    second == SubSeq(r.log, k + 1, Len(r.log))
                IN  /\ GoodWalk(SubSeq(r.log, 1, k - 1), segs)
                    /\ GoodWalk(second, segs)
                    /\ Len(second) = Len(segs)
\* A listing whose first walk took 2n calls and whose second took n, for n = 2.
C19_Witness ==
  \E s \in Active :
    LET r == reqs[s] IN
      /\ r.kind = "list" /\ r.pc = "listFolders"
      /\ Len(CallsOf(r.log, "create")) = 2 /\ Len(CallsOf(r.log, "find")) = 4

\* C20: once a path is resolved, the id returned is the folder for the full
\* path: each segment names a folder whose parent is the folder for the
\* segments before it, starting at the top level.
C20_ResolvedChainExists ==
  \A s \in Active :
    LET r == reqs[s] IN
      (Resolving(r) /\ PastResolve(r)) => IsFolderFor(r.cur, Split(ResolvedPath(r)))
\* A three-segment path whose walk had to create a folder.
C20_Witness ==
  \E s \in Active :
    LET r == reqs[s] IN
      /\ Resolving(r) /\ PastResolve(r) /\ Len(Split(ResolvedPath(r))) = 3
      /\ CallsOf(r.log, "create") # << >>

\* ------------------------------------------------------------------ folder graph claims
\* C21: the remote folder graph is a forest at every moment: a folder id names
\* one folder with one parent, a parent was handed its id before the child
\* (so no cycle); and every step keeps the parent of each folder it keeps,
\* while a folder it adds lies at the top level or under a folder that exists.
C21_FolderGraphIsForest ==
  /\ [](\A f \in folders :
         /\ \A g \in folders : g.id = f.id => g = f
         /\ f.parentId # Null => f.parentId < f.id /\ f.parentId \in FolderIds)
  /\ [][\A g \in folders' :
           \/ \E f \in folders : f.id = g.id /\ f.parentId = g.parentId
           \/ g.id \notin FolderIds /\ g.parentId \in FolderIds \cup {Null}]_vars
\* A folder inside another has been renamed.
C21_Witness ==
  \E s \in Active :
    LET r == reqs[s] IN
      /\ r.kind = "renFolder" /\ r.pc = "done" /\ r.resp.status = 200
      /\ \E f \in folders : f.id = r.id /\ f.name = r.name /\ f.parentId # Null

\* The top-level folders named `bucket`.
Buckets == FindFolders(Bucket, Null)

\* C22 as stated: under any interleaving of initialize, search and listing
\* requests there is at most one top-level folder `bucket`, and every user's
\* root folder is a child of it.
C22_Original ==
  /\ Cardinality(Buckets) <= 1
  /\ \A f \in folders :
        (f.name \in Users /\ f.parentId # Null) => \E b \in Buckets : b.id = f.parentId

\* C22 as amended: a request creates a `bucket` only when its own find saw
\* none, so a second `bucket` exists only when two overlapping requests each
\* created one; every root folder a request reaches is a child of a top-level
\* `bucket`, the one that request found or created.
C22_OneBucketPerRacingRequest ==
  /\ Cardinality(Buckets) <= Cardinality(Slots)
  /\ Cardinality(Buckets) > 1 => \A s \in Slots : HasCreated(s, Bucket, Null)
  /\ \A s \in Active :
        LET r == reqs[s] IN
          /\ (r.kind = "initialize" /\ r.pc = "done" /\ r.resp.status = 200) =>
                /\ \E b \in Buckets : b.id = r.resp.bucketFolderId
                /\ [id |-> r.resp.rootFolderId, name |-> r.user,
                    parentId |-> r.resp.bucketFolderId] \in folders
          /\ (r.kind \in {"search", "list"} /\ r.pc \in {"search", "listFiles", "listFolders"}) =>
                r.cur \in UserRoots(r.user)
\* Two `bucket` folders, each with a user's root folder in it.
C22_Witness ==
  \E b \in Buckets, c \in Buckets :
    /\ b.id # c.id
    /\ \E f \in folders, g \in folders :
          f.parentId = b.id /\ g.parentId = c.id /\ f.name \in Users /\ g.name \in Users

\* ------------------------------------------------------------------ session upload claims
\* C23: in the session-based upload handler every upload call carries a defined
\* folder id: the caller's root folder when the drive-session cookie is absent
\* or is not valid JSON, the session's currentFolderId when it parses.
C23_SessionUploadTarget ==
  \A s \in Active :
    LET r == reqs[s] IN
      r.kind = "uploadSession" =>
        \A i \in DOMAIN r.log :
          r.log[i].op = "files/create" =>
            /\ r.log[i].id # Undefined
            /\ IF r.cookie = "ok" THEN r.log[i].id = r.id
               ELSE r.log[i].id \in UserRoots(r.user)

\* ------------------------------------------------------------------ listing claims
\* C24: a listing the view asks for with the path of a folder entry it was
\* given by an earlier listing (a click on that folder) is not rejected with
\* 403, and when it succeeds it has listed the folder with that entry's id.
C24_ListedFolderCanBeListed ==
  \A s \in Active :
    LET r == reqs[s] IN
      (r.origin = "view" /\ r.kind = "list" /\ r.pc = "done") =>
        \A e \in viewFolders :
          NormalizedPath(e.path) = r.path =>
            /\ r.resp.status # 403
            /\ r.resp.status = 200 => r.fid = e.id

\* The listing in slot s has finished its second resolution.
ResolvedTwice(r) ==
  /\ r.kind = "list"
  /\ r.pc = "listFolders" \/ (r.pc = "done" /\ r.resp.status = 200)
\* The request in slot t has changed the folder tree: a folder deleted or created.
HasChangedTree(t) ==
  \E i \in DOMAIN reqs[t].log :
    reqs[t].log[i].op \in {"folders/delete", "create"} /\ reqs[t].log[i].ok

\* C25 as stated: the two resolutions of one listing yield the same folder id,
\* whatever another request does in between.
C25_Original ==
  \A s \in Active : ResolvedTwice(reqs[s]) => reqs[s].cur = reqs[s].fid

\* C25 as amended: the two resolutions of one listing yield the same folder id
\* unless another request has deleted or created a folder meanwhile; the
\* files are those of the first id and the subfolders those of the second.
C25_SameIdUnlessTreeChanged ==
  \A s \in Active :
    LET r == reqs[s] IN
      ResolvedTwice(r) =>
        /\ r.cur # r.fid => \E t \in Slots \ {s} : HasChangedTree(t)
        /\ CallsOf(r.log, "files")[1].id = r.fid
        /\ r.pc = "done" => CallsOf(r.log, "folders")[1].id = r.cur
\* A listing answered 200 whose files and subfolders come from different folders.
C25_Witness ==
  \E s \in Active :
    LET r == reqs[s] IN
      r.kind = "list" /\ r.pc = "done" /\ r.resp.status = 200 /\ r.cur # r.fid

\* C26: a step of a list request either leaves the remote drive as it is, or
\* adds exactly one folder, for a segment of its path that its find has just
\* not found; so a listing of a path whose segments all exist creates nothing.
C26_ListCreatesOnlyMissing ==
  [][\A s \in Slots :
       LET r == reqs[s] IN
         (r.kind = "list" /\ r.pc # "done") =>
           \/ UNCHANGED remote
           \/ /\ r.pc = "create"
              /\ ResolvedId(Split(ActualPath(r)), Null) = Null - 1
              /\ FindFolders(Head(r.parts), r.cur) = {}
              /\ folders' = folders \cup {[id |-> nextId, name |-> Head(r.parts), parentId |-> r.cur]}
              /\ files' = files]_vars
\* A listing of bucket/ab/Docs on the drive that holds it: six finds, no create.
C26_Witness ==
  \E s \in Active :
    LET r == reqs[s] IN
      /\ r.kind = "list" /\ r.pc = "done" /\ r.resp.status = 200
      /\ Len(CallsOf(r.log, "find")) = 6 /\ CallsOf(r.log, "create") = << >>
      /\ folders = SeededDrive.folders /\ files = SeededDrive.files

\* ------------------------------------------------------------------ overlapping view requests
\* A response of a list or search request reaches the view in this step.
Arrives(s) ==
  /\ reqs[s].origin = "view" /\ reqs[s].kind \in {"list", "search"}
  /\ reqs[s].pc = "done" /\ reqs'[s].pc = "idle"

\* C27: whenever the response of a list or search request arrives, whatever
\* was asked for since, a successful one replaces the displayed files and
\* folders by its own and a failed one leaves them; either clears the loading
\* indicator, also while the other request is in flight; no other step changes
\* what is displayed.  So the display is that of the last response to arrive.
C27_LastArrivalWins ==
  [][\A s \in Slots :
       LET r == reqs[s] IN
         IF Arrives(s)
         THEN /\ isLoading' = FALSE
              /\ IF r.resp.status = 200
                 THEN /\ viewFiles' = ShownFiles(r.view, r.resp.files)
                      /\ viewFolders' = ShownFolders(r.view, r.resp.folders)
                      /\ shown' = [path |-> r.path, view |-> r.view]
                 ELSE UNCHANGED <<viewFiles, viewFolders, shown>>
         ELSE (\A t \in Slots : ~Arrives(t)) => UNCHANGED <<viewFiles, viewFolders, shown>>]_vars
\* After one switch to the images view both requests have been answered without
\* failure, and the display is the folder listing of the earlier request.
C27_Witness ==
  /\ AllIdle /\ nview = 1 /\ lastOp.op = "view" /\ ~lastOp.failed
  /\ currentPath = Slash /\ currentView = "images"
  /\ shown = [path |-> Slash, view |-> "all"]
  /\ viewFolders # {}

\* ------------------------------------------------------------------ navigation claims
\* C28: a switch of the view to `images` puts the current path at "/", a
\* switch to `all` leaves the current path as it is, and navigate-up never
\* acts at "/".
C28_ViewSwitchAndUp ==
  [][nview' # nview =>
       /\ lastOp'.op = "view" =>
             currentPath' = (IF currentView' = "images" THEN Slash ELSE currentPath)
       /\ lastOp'.op \in {"up", "intoUp"} => currentPath # Slash]_vars

\* ------------------------------------------------------------------ search box claims
\* C29 as stated: every change of the query cancels the pending timer and
\* starts one of 500 ms for the new query; a search is issued only for a query
\* that stayed unchanged for the whole delay; a search in flight is never
\* cancelled and its answer is put on display on arrival.
C29_Original ==
  [][LET b == searchBox
         c == searchBox'
     IN  /\ c.query # b.query =>
               /\ c.timers = {[query |-> c.query, left |-> SearchDelay]}
               /\ c.inFlight = b.inFlight
         /\ \A q \in c.inFlight \ b.inFlight : q = b.query /\ b.quiet = SearchDelay
         /\ \A q \in b.inFlight \ c.inFlight : c.results \in {q, b.results} /\ ~c.loading]_vars
\* C29: a change of the query cancels the pending timer and, unless the new
\* query is blank, starts one of 500 ms; a search is issued only for the
\* current query and only once it has stayed unchanged for the whole delay; a
\* change of the query cancels no search in flight, and a search leaves the
\* flight only by its answer, which is put on display whatever the query is by then.
C29_SearchDebounced ==
  [][LET b == searchBox
         c == searchBox'
     IN  /\ c.query # b.query =>
               /\ c.timers = IF IsBlank(c.query) THEN {}
                              ELSE {[query |-> c.query, left |-> SearchDelay]}
               /\ c.inFlight = b.inFlight
         /\ \A q \in c.inFlight \ b.inFlight : q = b.query /\ b.quiet = SearchDelay
         /\ \A q \in b.inFlight \ c.inFlight : c.results \in {q, b.results} /\ ~c.loading]_vars
\* The answer for "p" is on display while the box holds "pq", whose timer is pending.
C29_Witness ==
  /\ searchBox.results = <<"p">> /\ searchBox.query = <<"p", "q">>
  /\ searchBox.timers # {} /\ searchBox.keys = 2

\* ------------------------------------------------------------------ inline rename claims
\* C30: a save of an inline rename with a non-blank name issues exactly one
\* PATCH, to the folders route for a folder row and to the files route for a
\* file row, carrying the id of that row and the name that was entered,
\* whatever was selected for rename before.
C30_SaveRenamesTheRow ==
  [][(nview' # nview /\ lastOp'.op = "rename" /\ ~IsBlank(renameState'.newName)) =>
       \E s \in Slots :
         /\ Idle(s)
         /\ \A t \in Slots \ {s} : reqs'[t] = reqs[t]
         /\ reqs'[s].origin = "view"
         /\ reqs'[s].kind = (IF renameState'.isFolder THEN "renFolder" ELSE "renFile")
         /\ reqs'[s].id = renameState'.item
         /\ reqs'[s].name = renameState'.newName]_vars

====
